---- MODULE Spec2Model ----
(***************************************************************************)
(* The self-updating priced-proxy registry of new-backend/server.py:       *)
(* FlaunchTokenStore (registry, payment gate registrations, persisted      *)
(* routes file), the price sync thread, and the Flask request handlers     *)
(* create_api, api_status, dynamic_api and list_apis, which run            *)
(* concurrently; and the transcript server of old-backend/server.py        *)
(* (process_transcript with its LLM and messaging collaborators), a        *)
(* separate process whose state is the variable tr.                        *)
(*                                                                         *)
(* Conventions.  A Python dict key that is absent is modelled by a         *)
(* sentinel: Absent (-1) for numbers, NoJob (0) for job ids, None for      *)
(* strings.  Prices are integers in units of 1e-7 USD; the price string    *)
(* handed to the payment gate has six decimals, so it is an integer in     *)
(* units of 1e-6 USD.  Paths are tuples of characters so that the          *)
(* startswith("/") test and the "/" + endpoint concatenation are computed. *)
(* api_config dicts are heap objects (cfgs) because the registry, the      *)
(* iterating sync thread and a handler's local variable can alias or       *)
(* cease to alias the same dict.  A step boundary is placed at every       *)
(* blocking call (network, file) and at the call into the payment          *)
(* middleware; the statements between two boundaries are one step.         *)
(***************************************************************************)
EXTENDS Integers, Sequences, FiniteSets, TLC

VARIABLES boot, file, cfgs, apis, order, gate, jobs, h, s, reqs, tr

vars == <<boot, file, cfgs, apis, order, gate, jobs, h, s, reqs, tr>>

----------------------------------------------------------------------------
(* Bounds of the model *)

MaxJobs == 2        \* launch requests accepted by the provisioning service
MaxPolls == 2       \* iterations of create's poll loop that fit in its 60 s
MaxRequests == 2    \* HTTP requests received in one behaviour
MaxMatches == 2     \* matches in one answer of the LLM

(* Program constants *)

default_price_multiplier == 10000   \* self.default_price_multiplier
default_token_price == 10           \* 0.000001 USD
fallback_api_price == 10000         \* 0.001 USD

None == "None"
Absent == -1
NoJob == 0

Handlers == {"h1", "h2"}
Before(u, t) == u = "h1" /\ t = "h2"

(* Inputs *)

RawPaths == {<<"a">>, <<"/", "a">>}               \* "endpoint" of a create body
Segments == {<<"a">>, <<"b">>}            \* <path:endpoint> of a URL
Multipliers == {Absent, 3, 0}                       \* "price_multiplier" of a create body
TargetUrl == <<"http://", "t">>
TargetUrls == {TargetUrl, <<"ftp://", "t">>}        \* "target_url" of a create body
MethodInputs == {None, "post", "PUT"}               \* "method" of a create body, None: not given
(* the inbound HTTP requests of the gateway: the headers are those of a paying *)
(* client, named as Flask presents them                                       *)
InboundHeaders == {"Host", "X-Payment", "Accept"}
GetRequest == [method |-> "GET", args |-> "q=1", json |-> None, headers |-> InboundHeaders]
PostRequest == [method |-> "POST", args |-> "q=1", json |-> "body", headers |-> InboundHeaders]
InboundRequests == {GetRequest, PostRequest}
FeedPrices == {7}                                   \* priceUSDC values the feed returns

(* what the request to the price API can end in: no answer within 10 s, an *)
(* answer with another status than 200, a 200 whose body is not the JSON   *)
(* object expected, a 200 with a JSON object (priceUSDC Absent: the body   *)
(* has no price)                                                           *)
FeedResponse(kind, priceUSDC) == [kind |-> kind, priceUSDC |-> priceUSDC]
FeedFailures == {FeedResponse(k, Absent) : k \in {"timeout", "non200", "unparsable"}}
FeedAnswers == {FeedResponse("ok", p) : p \in FeedPrices}
FeedNoPrice == FeedResponse("ok", Absent)
FeedResponses == {FeedResponse("timeout", Absent)} \cup FeedAnswers
AllFeedResponses == FeedFailures \cup FeedAnswers \cup {FeedNoPrice}

(* a get_token_price_data that has no snapshot for a body without price *)
get_token_price_data_strict(response) ==
    IF response.kind = "ok" THEN response.priceUSDC ELSE Absent

(* FlaunchTokenStore.get_token_price_data: the token_price_usd of the snapshot *)
(* returned, Absent when None is returned                                      *)
get_token_price_data(response) ==
    IF response.kind = "ok"
    THEN IF response.priceUSDC = Absent THEN 0 ELSE response.priceUSDC
    ELSE Absent

FeedOutcomes == {get_token_price_data(response) : response \in FeedResponses}

Truthy(v) == v \notin {None, ""}

(* method.upper() *)
Upper(method) ==
    CASE method = "get" -> "GET"
      [] method = "post" -> "POST"
      [] method = "put" -> "PUT"
      [] OTHER -> method

(* data.get("method", "GET").upper() and route.get("method", "GET").upper() *)
StoredMethod(method) == Upper(IF method = None THEN "GET" ELSE method)

(* a create_api that registers the endpoint as it was sent *)
NormalizeAsSent(endpoint) == endpoint

Normalize(endpoint) ==
    IF Len(endpoint) > 0 /\ endpoint[1] = "/" THEN endpoint ELSE <<"/">> \o endpoint

TokenOf(job_id) == "tok" \o ToString(job_id)

(* f"${api_price_usd:.6f}": round to six decimals (no input here is a tie) *)
Format6(x) == (x + 5) \div 10

(* the price update_x402_route registers for an api_config *)
X402Price(c) ==
    LET api_price_usd == IF c.api_price_usd = Absent THEN 0 ELSE c.api_price_usd
        token_price_usd == IF c.token_price_usd = Absent THEN 0 ELSE c.token_price_usd
        price_multiplier == c.price_multiplier
    IN  Format6(IF api_price_usd <= 0
                THEN IF token_price_usd > 0 THEN token_price_usd * price_multiplier
                     ELSE fallback_api_price
                ELSE api_price_usd)

----------------------------------------------------------------------------
(* The persisted routes file and the startup load *)

RouteData(endpoint, token_address, price_multiplier) ==
    [endpoint |-> endpoint, target_url |-> TargetUrl, method |-> "GET",
     token_address |-> token_address, price_multiplier |-> price_multiplier]

NoFile == <<>>
DeployedFile == << RouteData(<<"/", "b">>, "tokB", Absent) >>
PendingFile == << RouteData(<<"/", "b">>, "", Absent) >>
TwoRoutesFile == << RouteData(<<"/", "b">>, "tokB", Absent), RouteData(<<"c">>, "tokC", 3) >>
PutRouteFile == << [RouteData(<<"/", "b">>, "tokB", Absent) EXCEPT !.method = "put"] >>

InitialFiles == {NoFile, DeployedFile, PendingFile}

(* the api_config load_preexisting_routes builds for one route; out is the *)
(* result of get_token_price_data                                          *)
LoadedConfig(route, out) ==
    LET price_multiplier == IF route.price_multiplier = Absent
                            THEN default_price_multiplier ELSE route.price_multiplier
        token_price == IF out = Absent THEN default_token_price ELSE out
    IN  [endpoint |-> Normalize(route.endpoint),
         target_url |-> route.target_url,
         method |-> StoredMethod(route.method),
         price_multiplier |-> price_multiplier,
         job_id |-> NoJob,
         token_address |-> route.token_address,
         price_data |-> out,
         token_price_usd |-> token_price,
         api_price_usd |-> token_price * price_multiplier]

RECURSIVE LoadFrom(_, _, _, _)
(* the loop of load_preexisting_routes from route i on; st = <<cfgs, apis, order>> *)
LoadFrom(routes, outs, i, st) ==
    IF i > Len(routes) THEN st
    ELSE LET endpoint == Normalize(routes[i].endpoint)
         IN  IF endpoint \in DOMAIN st[2]
             THEN LoadFrom(routes, outs, i + 1, st)
             ELSE LoadFrom(routes, outs, i + 1,
                           << Append(st[1], LoadedConfig(routes[i], outs[i])),
                              (endpoint :> (Len(st[1]) + 1)) @@ st[2],
                              Append(st[3], endpoint) >>)

NoResponse ==
    [code |-> 0, error |-> None, status |-> None, job_id |-> NoJob,
     token_address |-> None, token_price_usd |-> Absent, api_price_usd |-> Absent]

(* no HTTP request: the inbound request of a handler that is not the gateway, *)
(* the outbound request of a handler that has sent none                       *)
NoRequest == [method |-> None, args |-> None, json |-> None, headers |-> {}]

IdleHandler ==
    [pc |-> "idle", kind |-> None, raw |-> <<>>, ep |-> <<>>, mult |-> Absent,
     cfg |-> 0, fcfg |-> 0, job |-> NoJob, polls |-> 0, deployed |-> FALSE,
     fin |-> FALSE, ret |-> None, sobj |-> 0, sret |-> None, pstr |-> Absent,
     routes |-> <<>>, gateHeld |-> FALSE, sawPending |-> FALSE, calls |-> {},
     alone |-> FALSE,
     url |-> <<>>, method |-> None, req |-> NoRequest, sent |-> NoRequest,
     upstream |-> None, listed |-> <<>>, total_apis |-> Absent,
     feed |-> FeedResponse(None, Absent), snapshot |-> Absent, resp |-> NoResponse]

IdleSync ==
    [pc |-> "sleep", pos |-> 0, used |-> 0, ep |-> <<>>, obj |-> 0,
     price_data |-> Absent, old_api_price |-> 0, pstr |-> Absent,
     skipped |-> {}, unavail |-> {}, fetched |-> {}, pushed |-> {}]

(* -------- the transcript server: old-backend/server.py -------- *)

(* a match of the LLM's answer; a field that the answer leaves out is None *)
Match(market_title, recommended_position, reasoning) ==
    [market_title |-> market_title, recommended_position |-> recommended_position,
     reasoning |-> reasoning]
FullMatch == Match("M", "YES", "R")
MatchInputs == {FullMatch, Match(None, "YES", "R"), Match("M", "NO", None)}

RECURSIVE SeqsUpTo(_, _)
SeqsUpTo(S, n) ==
    IF n = 0 THEN {<<>>}
    ELSE LET shorter == SeqsUpTo(S, n - 1)
         IN  shorter \cup {Append(q, x) : q \in {r \in shorter : Len(r) = n - 1}, x \in S}

(* what the chat completion request can end in: an exception of the request *)
(* or a bad status, a content that json.loads rejects, a JSON object with   *)
(* or without the key "matches"                                             *)
LlmOutput(kind, has_matches, matches) ==
    [kind |-> kind, has_matches |-> has_matches, matches |-> matches]
NoLlmOutput == LlmOutput(None, FALSE, <<>>)
LlmFailures == {LlmOutput(k, FALSE, <<>>) : k \in {"http_error", "unparsable"}}
LlmNoMatchesKey == LlmOutput("object", FALSE, <<>>)
LlmOutputs ==
    LlmFailures \cup {LlmNoMatchesKey}
    \cup {LlmOutput("object", TRUE, ms) : ms \in SeqsUpTo(MatchInputs, MaxMatches)}

(* the answers to the friend market prompt *)
FriendOutput(kind, should_create, market_title) ==
    [kind |-> kind, should_create |-> should_create, market_title |-> market_title]
NoFriendMarket == FriendOutput("object", FALSE, None)
FriendOutputs ==
    {FriendOutput("http_error", FALSE, None), NoFriendMarket,
     FriendOutput("object", TRUE, "F"), FriendOutput("object", TRUE, None)}

(* what fetch_polymarket_markets returns: [] after any failure *)
MarketLists == {<<>>, <<"Q">>}

(* how subprocess.run(["osascript", ...], check=True) ends: exit status 0, *)
(* a non-zero exit status, no osascript executable on the host            *)
SendOutcomes == {"sent", "CalledProcessError", "FileNotFoundError"}
SendFailures == SendOutcomes \ {"sent"}

IdleTranscript ==
    [pc |-> "idle", llm |-> NoLlmOutput, match_result |-> LlmOutput("object", TRUE, <<>>),
     i |-> 0, created_positions |-> <<>>, text |-> <<>>, delivered |-> <<>>,
     sends |-> {}, friend_market |-> None, code |-> 0, raised |-> None]

(* the process starts: the store is not constructed yet *)
InitWith(files) ==
    /\ boot = "init"
    /\ file \in files
    /\ cfgs = <<>>
    /\ apis = <<>>
    /\ order = <<>>
    /\ gate = <<>>
    /\ jobs = <<>>
    /\ h = [t \in Handlers |-> IdleHandler]
    /\ s = IdleSync
    /\ reqs = 0
    /\ tr = IdleTranscript

Init == InitWith(InitialFiles)

(* FlaunchTokenStore.__init__: store = FlaunchTokenStore() *)
load_preexisting_routes(outs) ==
    /\ boot = "init"
    /\ LET st == LoadFrom(file, outs, 1, <<cfgs, apis, order>>)
       IN  /\ cfgs' = st[1]
           /\ apis' = st[2]
           /\ order' = st[3]
    /\ boot' = "running"
    /\ UNCHANGED <<tr, file, gate, jobs, h, s, reqs>>

----------------------------------------------------------------------------
(* The price sync thread: FlaunchTokenStore.sync_prices *)

RECURSIVE Advance(_)
(* the for loop from its head up to the next blocking call: routes without *)
(* token_address are passed over, the first one with a token is fetched,   *)
(* the end of the dict sends the thread back to sleep                      *)
Advance(st) ==
    IF st.pos >= Len(order)
    THEN [st EXCEPT !.pc = "sleep", !.ep = <<>>, !.obj = 0]
    ELSE LET endpoint == order[st.pos + 1]
             obj == apis[endpoint]
         IN  IF Truthy(cfgs[obj].token_address)
             THEN [st EXCEPT !.pos = @ + 1, !.ep = endpoint, !.obj = obj, !.pc = "fetch"]
             ELSE Advance([st EXCEPT !.pos = @ + 1, !.skipped = @ \cup {endpoint}])

(* time.sleep(30) returns; the for statement takes an iterator of self.apis.items() *)
SyncWake ==
    /\ boot = "running"
    /\ s.pc = "sleep"
    /\ s' = Advance([IdleSync EXCEPT !.used = Len(order)])
    /\ UNCHANGED <<tr, boot, file, cfgs, apis, order, gate, jobs, h, reqs>>

(* the iterator's next() after a loop body: a dict whose size changed since *)
(* the iterator was taken raises RuntimeError, which nothing in sync_prices *)
(* catches                                                                  *)
SyncNext ==
    /\ s.pc = "next"
    /\ IF s.used # Len(order)
       THEN s' = [s EXCEPT !.pc = "dead"]
       ELSE s' = Advance(s)
    /\ UNCHANGED <<tr, boot, file, cfgs, apis, order, gate, jobs, h, reqs>>

(* a sync_prices that prices every route with the default multiplier *)
SyncedConfigDefaultMultiplier(c, token_price) ==
    [c EXCEPT !.price_data = token_price,
              !.token_price_usd = token_price,
              !.api_price_usd = token_price * default_price_multiplier]

(* the record sync_prices stores after a successful fetch *)
SyncedConfig(c, token_price) ==
    [c EXCEPT !.price_data = token_price,
              !.token_price_usd = token_price,
              !.api_price_usd = token_price * c.price_multiplier]

(* a sync_prices whose tick ends at the first route that is Unavailable *)
SyncFetchEndsTick(out) ==
    /\ s.pc = "fetch"
    /\ IF out = Absent
       THEN /\ s' = [s EXCEPT !.pc = "sleep", !.price_data = Absent,
                              !.unavail = @ \cup {s.ep}]
            /\ UNCHANGED cfgs
       ELSE /\ cfgs' = [cfgs EXCEPT ![s.obj] = SyncedConfig(@, out)]
            /\ s' = [s EXCEPT !.pc = "gate", !.price_data = out,
                              !.fetched = @ \cup {s.ep},
                              !.old_api_price =
                                  IF cfgs[s.obj].api_price_usd = Absent
                                  THEN 0 ELSE cfgs[s.obj].api_price_usd]
    /\ UNCHANGED <<tr, boot, file, apis, order, gate, jobs, h, reqs>>

(* a sync_prices that falls back to the default price when Unavailable, *)
(* as load_preexisting_routes and finalize_token_launch do              *)
SyncFetchResetsPrice(out) ==
    /\ s.pc = "fetch"
    /\ IF out = Absent
       THEN /\ cfgs' = [cfgs EXCEPT ![s.obj] = SyncedConfig(@, default_token_price)]
            /\ s' = [s EXCEPT !.pc = "next", !.price_data = Absent,
                              !.unavail = @ \cup {s.ep}]
       ELSE /\ cfgs' = [cfgs EXCEPT ![s.obj] = SyncedConfig(@, out)]
            /\ s' = [s EXCEPT !.pc = "gate", !.price_data = out,
                              !.fetched = @ \cup {s.ep},
                              !.old_api_price =
                                  IF cfgs[s.obj].api_price_usd = Absent
                                  THEN 0 ELSE cfgs[s.obj].api_price_usd]
    /\ UNCHANGED <<tr, boot, file, apis, order, gate, jobs, h, reqs>>

(* get_token_price_data returns out; on a snapshot the prices are stored *)
SyncFetch(out) ==
    /\ s.pc = "fetch"
    /\ IF out = Absent
       THEN /\ s' = [s EXCEPT !.pc = "next", !.price_data = Absent,
                              !.unavail = @ \cup {s.ep}]
            /\ UNCHANGED cfgs
       ELSE /\ cfgs' = [cfgs EXCEPT ![s.obj] = SyncedConfig(@, out)]
            /\ s' = [s EXCEPT !.pc = "gate", !.price_data = out,
                              !.fetched = @ \cup {s.ep},
                              !.old_api_price =
                                  IF cfgs[s.obj].api_price_usd = Absent
                                  THEN 0 ELSE cfgs[s.obj].api_price_usd]
    /\ UNCHANGED <<tr, boot, file, apis, order, gate, jobs, h, reqs>>

(* update_x402_route up to the call of payment_middleware.add *)
SyncGateRead ==
    /\ s.pc = "gate"
    /\ s' = [s EXCEPT !.pc = "add", !.pstr = X402Price(cfgs[s.obj])]
    /\ UNCHANGED <<tr, boot, file, cfgs, apis, order, gate, jobs, h, reqs>>

(* payment_middleware.add(path=endpoint, price=price_str, ...) *)
GateAdd(g, endpoint, price_str) == (endpoint :> price_str) @@ g

SyncGateAdd ==
    /\ s.pc = "add"
    /\ gate' = GateAdd(gate, s.ep, s.pstr)
    /\ s' = [s EXCEPT !.pc = "next", !.pstr = Absent, !.pushed = @ \cup {s.ep}]
    /\ UNCHANGED <<tr, boot, file, cfgs, apis, order, jobs, h, reqs>>

sync_prices ==
    \/ SyncWake
    \/ SyncNext
    \/ \E out \in FeedOutcomes : SyncFetch(out)
    \/ SyncGateRead
    \/ SyncGateAdd

----------------------------------------------------------------------------
(* The collaborators *)

(* the provisioning service completes a queued launch *)
ResolveJob(j) ==
    /\ j \in DOMAIN jobs
    /\ jobs[j] = "pending"
    /\ jobs' = [jobs EXCEPT ![j] = "resolved"]
    /\ UNCHANGED <<tr, boot, file, cfgs, apis, order, gate, h, s, reqs>>

(* what check_launch_status can return for a job: None on an exception,    *)
(* a body without success while queued, the token once the job resolved    *)
LaunchStatuses(job_id) ==
    {"error", "pending"} \cup (IF jobs[job_id] = "resolved" THEN {"resolved"} ELSE {})

----------------------------------------------------------------------------
(* Request handlers.  h[t] holds the locals of the request thread t. *)

Respond(code, error, status, job_id, token_address, token_price_usd, api_price_usd) ==
    [code |-> code, error |-> error, status |-> status, job_id |-> job_id,
     token_address |-> token_address, token_price_usd |-> token_price_usd,
     api_price_usd |-> api_price_usd]

ErrorResponse(code, error) == Respond(code, error, None, NoJob, None, Absent, Absent)

(* the handler returns resp; the thread still holds its locals *)
Finish(r, resp) == [r EXCEPT !.pc = "reply", !.resp = resp]

(* the response is sent and the thread is free again *)
Reply(t) ==
    /\ h[t].pc = "reply"
    /\ h' = [h EXCEPT ![t] = IdleHandler]
    /\ UNCHANGED <<tr, boot, file, cfgs, apis, order, gate, jobs, s, reqs>>

(* a request is handed to the first idle thread of the server *)
Receive(t) ==
    /\ boot = "running"
    /\ h[t].pc = "idle"
    /\ \A u \in Handlers : Before(u, t) => h[u].pc # "idle"
    /\ reqs < MaxRequests
    /\ reqs' = reqs + 1

(* the locals of a fresh request; alone: no other request is being handled *)
Fresh(t, kind, raw, endpoint) ==
    [IdleHandler EXCEPT !.kind = kind, !.raw = raw, !.ep = endpoint,
                        !.alone = \A u \in Handlers \ {t} : h[u].pc = "idle"]

(* thread t starts on its request with locals r *)
Started(t, r) ==
    h' = [u \in Handlers |-> IF u = t THEN r ELSE [h[u] EXCEPT !.alone = FALSE]]

(* -------- FlaunchTokenStore.finalize_token_launch -------- *)

FinBegin(t) ==
    /\ h[t].pc = "fin_begin"
    /\ LET r == h[t]
       IN  IF r.ep \notin DOMAIN apis
           THEN h' = [h EXCEPT ![t] = [r EXCEPT !.pc = r.ret, !.fin = FALSE]]
           ELSE LET api_config == cfgs[apis[r.ep]]
                IN  IF Truthy(api_config.token_address)
                    THEN h' = [h EXCEPT ![t] = [r EXCEPT !.pc = r.ret, !.fin = TRUE]]
                    ELSE IF api_config.job_id = NoJob
                    THEN h' = [h EXCEPT ![t] = [r EXCEPT !.pc = r.ret, !.fin = FALSE]]
                    ELSE h' = [h EXCEPT ![t] = [r EXCEPT !.pc = "fin_check",
                                                         !.fcfg = apis[r.ep],
                                                         !.job = api_config.job_id]]
    /\ UNCHANGED <<tr, boot, file, cfgs, apis, order, gate, jobs, s, reqs>>

(* a finalize_token_launch that stores the default price together with the token *)
FinCheckStoresPrice(t, status) ==
    /\ h[t].pc = "fin_check"
    /\ status \in LaunchStatuses(h[t].job)
    /\ LET r == [h[t] EXCEPT !.calls = @ \cup {"status"}]
       IN  IF status = "resolved"
           THEN /\ cfgs' = [cfgs EXCEPT ![r.fcfg] =
                              [@ EXCEPT !.token_address = TokenOf(r.job),
                                        !.token_price_usd = default_token_price,
                                        !.api_price_usd = default_token_price * cfgs[r.fcfg].price_multiplier]]
                /\ h' = [h EXCEPT ![t] = [r EXCEPT !.pc = "fin_price"]]
           ELSE /\ h' = [h EXCEPT ![t] = [r EXCEPT !.pc = r.ret, !.fin = FALSE,
                                                   !.fcfg = 0, !.job = NoJob]]
                /\ UNCHANGED cfgs
    /\ UNCHANGED <<tr, boot, file, apis, order, gate, jobs, s, reqs>>

(* check_launch_status returns; a resolved job's token is stored *)
FinCheck(t, status) ==
    /\ h[t].pc = "fin_check"
    /\ status \in LaunchStatuses(h[t].job)
    /\ LET r == [h[t] EXCEPT !.calls = @ \cup {"status"}]
       IN  IF status = "resolved"
           THEN /\ cfgs' = [cfgs EXCEPT ![r.fcfg].token_address = TokenOf(r.job)]
                /\ h' = [h EXCEPT ![t] = [r EXCEPT !.pc = "fin_price"]]
           ELSE /\ h' = [h EXCEPT ![t] = [r EXCEPT !.pc = r.ret, !.fin = FALSE,
                                                   !.fcfg = 0, !.job = NoJob]]
                /\ UNCHANGED cfgs
    /\ UNCHANGED <<tr, boot, file, apis, order, gate, jobs, s, reqs>>

(* the record finalize_token_launch stores after its initial price fetch *)
FinalizedConfig(c, out) ==
    IF out = Absent
    THEN [c EXCEPT !.token_price_usd = default_token_price,
                   !.api_price_usd = default_token_price * c.price_multiplier]
    ELSE [c EXCEPT !.price_data = out,
                   !.token_price_usd = out,
                   !.api_price_usd = out * c.price_multiplier]

(* the initial price fetch of finalize_token_launch *)
FinPrice(t, response) ==
    /\ h[t].pc = "fin_price"
    /\ LET out == get_token_price_data(response)
       IN  /\ cfgs' = [cfgs EXCEPT ![h[t].fcfg] = FinalizedConfig(@, out)]
           /\ h' = [h EXCEPT ![t].pc = "fin_gate", ![t].calls = @ \cup {"price"},
                             ![t].feed = response, ![t].snapshot = out]
    /\ UNCHANGED <<tr, boot, file, apis, order, gate, jobs, s, reqs>>

FinGateRead(t) ==
    /\ h[t].pc = "fin_gate"
    /\ h' = [h EXCEPT ![t].pc = "fin_add", ![t].pstr = X402Price(cfgs[h[t].fcfg]),
                      ![t].feed = FeedResponse(None, Absent), ![t].snapshot = Absent]
    /\ UNCHANGED <<tr, boot, file, cfgs, apis, order, gate, jobs, s, reqs>>

FinGateAdd(t) ==
    /\ h[t].pc = "fin_add"
    /\ gate' = GateAdd(gate, h[t].ep, h[t].pstr)
    /\ h' = [h EXCEPT ![t].pc = "save_r", ![t].pstr = Absent,
                      ![t].sobj = h[t].fcfg, ![t].sret = "fin_done"]
    /\ UNCHANGED <<tr, boot, file, cfgs, apis, order, jobs, s, reqs>>

FinDone(t) ==
    /\ h[t].pc = "fin_done"
    /\ h' = [h EXCEPT ![t].pc = h[t].ret, ![t].fin = TRUE,
                      ![t].fcfg = 0, ![t].job = NoJob]
    /\ UNCHANGED <<tr, boot, file, cfgs, apis, order, gate, jobs, s, reqs>>

(* -------- FlaunchTokenStore.save_api_to_json -------- *)

(* route_data: token_address defaults to "", job_id is not among the fields *)
SavedRoute(c) ==
    [endpoint |-> c.endpoint, target_url |-> c.target_url, method |-> c.method,
     token_address |-> IF c.token_address = None THEN "" ELSE c.token_address,
     price_multiplier |-> IF c.price_multiplier # 0
                             /\ c.price_multiplier # default_price_multiplier
                          THEN c.price_multiplier ELSE Absent]

RECURSIVE IndexOf(_, _, _)
IndexOf(routes, endpoint, i) ==
    IF i > Len(routes) THEN 0
    ELSE IF routes[i].endpoint = endpoint THEN i
    ELSE IndexOf(routes, endpoint, i + 1)

SaveInto(routes, route_data) ==
    LET existing_index == IndexOf(routes, route_data.endpoint, 1)
    IN  IF existing_index # 0
        THEN [routes EXCEPT ![existing_index] = route_data]
        ELSE Append(routes, route_data)

SaveRead(t) ==
    /\ h[t].pc = "save_r"
    /\ h' = [h EXCEPT ![t].pc = "save_w", ![t].routes = file]
    /\ UNCHANGED <<tr, boot, file, cfgs, apis, order, gate, jobs, s, reqs>>

SaveWrite(t) ==
    /\ h[t].pc = "save_w"
    /\ file' = SaveInto(h[t].routes, SavedRoute(cfgs[h[t].sobj]))
    /\ h' = [h EXCEPT ![t].pc = h[t].sret, ![t].routes = <<>>,
                      ![t].sobj = 0, ![t].sret = None]
    /\ UNCHANGED <<tr, boot, cfgs, apis, order, gate, jobs, s, reqs>>

(* -------- create_api: POST /admin/create-api -------- *)

AlreadyExists(endpoint) == endpoint \in DOMAIN apis

(* a create_api that takes any URL with a scheme *)
AnyTargetUrl(target_url) == Len(target_url) > 0

ValidTargetUrl(target_url) == target_url[1] \in {"http://", "https://"}

(* the api_config create_api builds and, once the launch is queued, registers *)
CreatedConfig(endpoint, target_url, method, price_multiplier, job_id) ==
    [endpoint |-> endpoint,
     target_url |-> target_url,
     method |-> StoredMethod(method),
     price_multiplier |-> IF price_multiplier = Absent
                          THEN default_price_multiplier ELSE price_multiplier,
     job_id |-> job_id,
     token_address |-> None,
     price_data |-> Absent,
     token_price_usd |-> Absent,
     api_price_usd |-> Absent]

(* the request arrives: the endpoint is normalised, duplicates and bad URLs rejected *)
CreateReceive(t, raw, target_url, method, price_multiplier) ==
    /\ Receive(t)
    /\ LET endpoint == Normalize(raw)
           r == [Fresh(t, "create", raw, endpoint) EXCEPT
                     !.url = target_url, !.method = method, !.mult = price_multiplier]
       IN  IF AlreadyExists(endpoint)
           THEN Started(t, Finish(r, ErrorResponse(400, "Endpoint already exists")))
           ELSE IF ~ValidTargetUrl(target_url)
           THEN Started(t, Finish(r, ErrorResponse(400, "Invalid target URL")))
           ELSE Started(t, [r EXCEPT !.pc = "cr_launch"])
    /\ UNCHANGED <<tr, boot, file, cfgs, apis, order, gate, jobs, s>>

(* a create_api that puts the config in store.apis before it launches *)
CreateLaunchRegistersFirst(t, ok) ==
    /\ h[t].pc = "cr_launch"
    /\ LET r == [h[t] EXCEPT !.calls = @ \cup {"launch"}, !.raw = <<>>]
           job_id == IF ok THEN Len(jobs) + 1 ELSE NoJob
       IN  /\ ok => Len(jobs) < MaxJobs
           /\ jobs' = IF ok THEN Append(jobs, "pending") ELSE jobs
           /\ cfgs' = Append(cfgs, CreatedConfig(r.ep, r.url, r.method, r.mult, job_id))
           /\ apis' = (r.ep :> (Len(cfgs) + 1)) @@ apis
           /\ order' = IF r.ep \in DOMAIN apis THEN order ELSE Append(order, r.ep)
           /\ h' = [h EXCEPT ![t] =
                      IF ok
                      THEN [r EXCEPT !.pc = "fin_begin", !.ret = "cr_ret",
                                     !.cfg = Len(cfgs) + 1, !.polls = 1]
                      ELSE Finish(r, ErrorResponse(500, "Failed to launch token on Flaunch"))]
    /\ UNCHANGED <<tr, boot, file, gate, s, reqs>>

(* launch_token_on_flaunch returns; on success the config is put in store.apis *)
(* and the poll loop makes its first finalize attempt                          *)
CreateLaunch(t, ok) ==
    /\ h[t].pc = "cr_launch"
    /\ LET r == [h[t] EXCEPT !.calls = @ \cup {"launch"}, !.raw = <<>>]
       IN  IF ~ok
           THEN /\ h' = [h EXCEPT ![t] = Finish(r, ErrorResponse(500, "Failed to launch token on Flaunch"))]
                /\ UNCHANGED <<cfgs, apis, order, jobs, reqs>>
           ELSE /\ Len(jobs) < MaxJobs
                /\ jobs' = Append(jobs, "pending")
                /\ cfgs' = Append(cfgs, CreatedConfig(r.ep, r.url, r.method, r.mult, Len(jobs) + 1))
                /\ apis' = (r.ep :> (Len(cfgs) + 1)) @@ apis
                /\ order' = IF r.ep \in DOMAIN apis THEN order ELSE Append(order, r.ep)
                /\ h' = [h EXCEPT ![t] = [r EXCEPT !.pc = "fin_begin", !.ret = "cr_ret",
                                                   !.cfg = Len(cfgs) + 1, !.polls = 1]]
    /\ UNCHANGED <<tr, boot, file, gate, s, reqs>>

(* a create_api whose poll loop has no time limit *)
CreatePollUntilDeployed(t, more) ==
    /\ h[t].pc = "cr_ret"
    /\ LET r == h[t]
       IN  IF r.fin
           THEN h' = [h EXCEPT ![t] = [r EXCEPT !.pc = "save_r", !.deployed = TRUE,
                                                !.sobj = r.cfg, !.sret = "cr_resp"]]
           ELSE h' = [h EXCEPT ![t] = [r EXCEPT !.pc = "fin_begin"]]
    /\ UNCHANGED <<tr, boot, file, cfgs, apis, order, gate, jobs, s, reqs>>

(* finalize_token_launch returned inside the poll loop; more: the 60 s are not over *)
CreatePoll(t, more) ==
    /\ h[t].pc = "cr_ret"
    /\ LET r == h[t]
       IN  IF r.fin
           THEN h' = [h EXCEPT ![t] = [r EXCEPT !.pc = "save_r", !.deployed = TRUE,
                                                !.sobj = r.cfg, !.sret = "cr_resp"]]
           ELSE IF more
           THEN /\ r.polls < MaxPolls
                /\ h' = [h EXCEPT ![t] = [r EXCEPT !.pc = "fin_begin", !.polls = @ + 1]]
           ELSE h' = [h EXCEPT ![t] = [r EXCEPT !.pc = "save_r",
                                                !.sobj = r.cfg, !.sret = "cr_resp"]]
    /\ UNCHANGED <<tr, boot, file, cfgs, apis, order, gate, jobs, s, reqs>>

CreateRespond(t) ==
    /\ h[t].pc = "cr_resp"
    /\ LET r == h[t]
           api_config == cfgs[r.cfg]
       IN  h' = [h EXCEPT ![t] =
                   Finish(r, Respond(201, None,
                                     IF r.deployed THEN "deployed" ELSE "pending",
                                     api_config.job_id, api_config.token_address,
                                     IF r.deployed THEN api_config.token_price_usd ELSE Absent,
                                     IF r.deployed THEN api_config.api_price_usd ELSE Absent))]
    /\ UNCHANGED <<tr, boot, file, cfgs, apis, order, gate, jobs, s, reqs>>

(* -------- api_status: GET /admin/api-status/<path:endpoint> -------- *)

StatusReceive(t, seg) ==
    /\ Receive(t)
    /\ LET endpoint == <<"/">> \o seg
           r == Fresh(t, "status", seg, endpoint)
       IN  IF endpoint \notin DOMAIN apis
           THEN Started(t, Finish(r, ErrorResponse(404, "API not found")))
           ELSE Started(t, [r EXCEPT !.pc = "fin_begin", !.ret = "st_ret",
                                     !.cfg = apis[endpoint]])
    /\ UNCHANGED <<tr, boot, file, cfgs, apis, order, gate, jobs, s>>

(* an api_status that takes a route with a job_id for deployed *)
StatusResponseByJob(api_config) ==
    IF Truthy(api_config.token_address) \/ api_config.job_id # NoJob
    THEN Respond(200, None, "deployed", NoJob, api_config.token_address,
                 IF api_config.token_price_usd = Absent THEN 0 ELSE api_config.token_price_usd,
                 IF api_config.api_price_usd = Absent THEN 0 ELSE api_config.api_price_usd)
    ELSE Respond(200, None, "launching", api_config.job_id, None, Absent, Absent)

StatusResponse(api_config) ==
    IF Truthy(api_config.token_address)
    THEN Respond(200, None, "deployed", NoJob, api_config.token_address,
                 IF api_config.token_price_usd = Absent THEN 0 ELSE api_config.token_price_usd,
                 IF api_config.api_price_usd = Absent THEN 0 ELSE api_config.api_price_usd)
    ELSE Respond(200, None, "launching", api_config.job_id, None, Absent, Absent)

StatusRespond(t) ==
    /\ h[t].pc = "st_ret"
    /\ h' = [h EXCEPT ![t] = Finish(h[t], StatusResponse(cfgs[h[t].cfg]))]
    /\ UNCHANGED <<tr, boot, file, cfgs, apis, order, gate, jobs, s, reqs>>

(* -------- dynamic_api: GET|POST /<path:endpoint> behind the x402 middleware -------- *)

(* the payment middleware lets a request through when no price is registered *)
(* for its path or when it carries a valid payment                           *)
GatePasses(path, paid) == path \notin DOMAIN gate \/ paid

(* proxy_to_target_api sends the request for GET and POST *)
Forwards(method) == method \in {"GET", "POST"}

(* k.lower() of a header name *)
Lower(k) ==
    CASE k = "Host" -> "host"
      [] k = "X-Payment" -> "x-payment"
      [] k = "Accept" -> "accept"
      [] OTHER -> k

(* the request proxy_to_target_api sends for the inbound request req: *)
(* requests.get(params, headers) or requests.post(json, params, headers) *)
OutboundRequest(req, method) ==
    [method |-> method,
     args |-> req.args,
     json |-> IF method = "POST" THEN req.json ELSE None,
     headers |-> {k \in req.headers : Lower(k) \notin {"host", "x-payment"}}]

(* proxy to the target: the outbound request is sent, or the method is refused *)
Forward(r) ==
    LET method == cfgs[apis[r.ep]].method
    IN  IF Forwards(method)
        THEN [r EXCEPT !.pc = "gw_wait", !.calls = @ \cup {"target"},
                       !.sent = OutboundRequest(r.req, method)]
        ELSE Finish(r, ErrorResponse(400, "Unsupported method"))

(* a dynamic_api that answers "still launching" for every path without token *)
GatewayDispatchNoLookup(r) ==
    IF r.ep \notin DOMAIN apis
    THEN Finish(r, ErrorResponse(503, "Token still launching"))
    ELSE IF ~Truthy(cfgs[apis[r.ep]].token_address)
    THEN [r EXCEPT !.pc = "fin_begin", !.ret = "gw_ret", !.sawPending = TRUE]
    ELSE Forward(r)

(* dynamic_api up to its first blocking call: unknown routes are answered 404, *)
(* a route without token sleeps and then tries to finalize, others are proxied *)
GatewayDispatch(r) ==
    IF r.ep \notin DOMAIN apis
    THEN Finish(r, ErrorResponse(404, "API endpoint not found"))
    ELSE IF ~Truthy(cfgs[apis[r.ep]].token_address)
    THEN [r EXCEPT !.pc = "fin_begin", !.ret = "gw_ret", !.sawPending = TRUE]
    ELSE Forward(r)

GatewayReceive(t, seg, paid, req) ==
    /\ Receive(t)
    /\ LET endpoint == <<"/">> \o seg
           r == [Fresh(t, "gateway", seg, endpoint) EXCEPT
                     !.gateHeld = endpoint \in DOMAIN gate, !.req = req]
       IN  IF ~GatePasses(endpoint, paid)
           THEN Started(t, Finish(r, ErrorResponse(402, "Payment required")))
           ELSE Started(t, GatewayDispatch(r))
    /\ UNCHANGED <<tr, boot, file, cfgs, apis, order, gate, jobs, s>>

(* a dynamic_api that proxies whatever finalize_token_launch returned *)
GatewayIgnoresFinalize(t) ==
    /\ h[t].pc = "gw_ret"
    /\ h' = [h EXCEPT ![t] = Forward(h[t])]
    /\ UNCHANGED <<tr, boot, file, cfgs, apis, order, gate, jobs, s, reqs>>

(* finalize_token_launch returned to dynamic_api *)
GatewayAfterFinalize(t) ==
    /\ h[t].pc = "gw_ret"
    /\ LET r == h[t]
       IN  IF ~r.fin
           THEN h' = [h EXCEPT ![t] =
                        Finish(r, Respond(503, "Token still launching", None,
                                          cfgs[apis[r.ep]].job_id, None, Absent, Absent))]
           ELSE h' = [h EXCEPT ![t] = Forward(r)]
    /\ UNCHANGED <<tr, boot, file, cfgs, apis, order, gate, jobs, s, reqs>>

(* how the outbound call ends: a response, requests.exceptions.Timeout, or *)
(* another requests.exceptions.RequestException                           *)
UpstreamOutcomes == {"ok", "timeout", "error"}

(* a proxy_to_target_api with one except clause for every RequestException *)
ProxyResponseCatchAll(outcome) ==
    IF outcome = "ok"
    THEN ErrorResponse(200, None)
    ELSE ErrorResponse(502, "Target API error")

(* what proxy_to_target_api returns: the target's response relayed, 504 on *)
(* a timeout, 502 on any other request error                               *)
ProxyResponse(outcome) ==
    CASE outcome = "timeout" -> ErrorResponse(504, "Target API timeout")
      [] outcome = "error" -> ErrorResponse(502, "Target API error")
      [] OTHER -> ErrorResponse(200, None)

(* the outbound call of proxy_to_target_api ends *)
GatewayRelay(t, outcome) ==
    /\ h[t].pc = "gw_wait"
    /\ h' = [h EXCEPT ![t] = Finish([h[t] EXCEPT !.upstream = outcome],
                                    ProxyResponse(outcome))]
    /\ UNCHANGED <<tr, boot, file, cfgs, apis, order, gate, jobs, s, reqs>>

(* -------- list_apis: GET /admin/list-apis -------- *)

(* the entry list_apis builds for one route *)
ListInfo(endpoint, api_config) ==
    LET token_address == api_config.token_address
    IN  [endpoint |-> endpoint,
         method |-> api_config.method,
         status |-> IF Truthy(token_address) THEN "deployed" ELSE "launching",
         token_address |-> IF Truthy(token_address) THEN token_address ELSE None,
         token_price_usd |-> IF Truthy(token_address)
                             THEN api_config.token_price_usd ELSE Absent,
         api_price_usd |-> IF Truthy(token_address)
                           THEN api_config.api_price_usd ELSE Absent]

(* a list_apis that leaves out the routes that are still launching *)
ListDeployed(registry, keys) ==
    SelectSeq([i \in 1..Len(keys) |-> ListInfo(keys[i], cfgs[registry[keys[i]]])],
              LAMBDA info : info.status = "deployed")

(* apis_info: one entry for every item of store.apis, in the order of the dict *)
ListApis(registry, keys) ==
    [i \in 1..Len(keys) |-> ListInfo(keys[i], cfgs[registry[keys[i]]])]

list_apis(t) ==
    /\ Receive(t)
    /\ LET apis_info == ListApis(apis, order)
           r == [Fresh(t, "list", <<>>, <<>>) EXCEPT
                     !.listed = apis_info, !.total_apis = Len(apis_info)]
       IN  Started(t, Finish(r, ErrorResponse(200, None)))
    /\ UNCHANGED <<tr, boot, file, cfgs, apis, order, gate, jobs, s>>

----------------------------------------------------------------------------

Load == \E outs \in [1..2 -> FeedOutcomes] : load_preexisting_routes(outs)

Provisioning == \E j \in 1..MaxJobs : ResolveJob(j)

(* the steps of a request that has been received; responses: what the price *)
(* API may answer                                                            *)
Steps(t, responses) ==
    \/ \E ok \in BOOLEAN : CreateLaunch(t, ok)
    \/ \E more \in BOOLEAN : CreatePoll(t, more)
    \/ CreateRespond(t)
    \/ StatusRespond(t)
    \/ GatewayAfterFinalize(t)
    \/ \E outcome \in UpstreamOutcomes : GatewayRelay(t, outcome)
    \/ FinBegin(t)
    \/ \E status \in {"error", "pending", "resolved"} : FinCheck(t, status)
    \/ \E response \in responses : FinPrice(t, response)
    \/ FinGateRead(t)
    \/ FinGateAdd(t)
    \/ FinDone(t)
    \/ SaveRead(t)
    \/ SaveWrite(t)
    \/ Reply(t)

Handler(t) ==
    \/ \E raw \in RawPaths : CreateReceive(t, raw, TargetUrl, None, Absent)
    \/ \E seg \in Segments : StatusReceive(t, seg)
    \/ \E seg \in Segments, paid \in BOOLEAN : GatewayReceive(t, seg, paid, GetRequest)
    \/ list_apis(t)
    \/ Steps(t, FeedResponses)

Next ==
    \/ Load
    \/ Provisioning
    \/ \E t \in Handlers : Handler(t)

Spec == Init /\ [][Next]_vars

(* the sync thread beside one request thread *)
InitSync == InitWith({TwoRoutesFile})

NextSync ==
    \/ Load
    \/ Provisioning
    \/ sync_prices
    \/ Handler("h1")

SpecSync == InitSync /\ [][NextSync]_vars

(* one request thread with every kind of request body, inbound request, *)
(* routes file and price API answer                                     *)
AllFeedOutcomes == {get_token_price_data(response) : response \in AllFeedResponses}

LoadAny == \E outs \in [1..2 -> AllFeedOutcomes] : load_preexisting_routes(outs)

HandlerAny(t) ==
    \/ \E raw \in RawPaths, target_url \in TargetUrls,
          method \in MethodInputs, price_multiplier \in Multipliers :
            CreateReceive(t, raw, target_url, method, price_multiplier)
    \/ \E seg \in Segments : StatusReceive(t, seg)
    \/ \E seg \in Segments, paid \in BOOLEAN, req \in InboundRequests :
            GatewayReceive(t, seg, paid, req)
    \/ list_apis(t)
    \/ Steps(t, AllFeedResponses)

InitOne == InitWith(InitialFiles \cup {PutRouteFile})

NextOne ==
    \/ LoadAny
    \/ Provisioning
    \/ HandlerAny("h1")

SpecOne == InitOne /\ [][NextOne]_vars

(* the request thread is scheduled, and every blocking call of a handler *)
(* returns: the outbound calls have timeouts, the sleeps are finite      *)
SpecOneFair == SpecOne /\ WF_vars(Steps("h1", AllFeedResponses))

(* two request threads that create routes for different paths *)
SavePaths == {<<"a">>, <<"c">>}

CreateSteps(t) ==
    \/ \E raw \in SavePaths : CreateReceive(t, raw, TargetUrl, None, Absent)
    \/ \E ok \in BOOLEAN : CreateLaunch(t, ok)
    \/ \E more \in BOOLEAN : CreatePoll(t, more)
    \/ CreateRespond(t)
    \/ FinBegin(t)
    \/ \E status \in {"error", "pending", "resolved"} : FinCheck(t, status)
    \/ \E response \in FeedResponses : FinPrice(t, response)
    \/ FinGateRead(t)
    \/ FinGateAdd(t)
    \/ FinDone(t)
    \/ SaveRead(t)
    \/ SaveWrite(t)
    \/ Reply(t)

NextSave ==
    \/ Load
    \/ Provisioning
    \/ \E t \in Handlers : CreateSteps(t)

SpecSave == InitWith({NoFile, DeployedFile}) /\ [][NextSave]_vars

----------------------------------------------------------------------------
(* The transcript server: process_transcript of old-backend/server.py.     *)
(* tr holds the locals of the request being handled.                       *)

(* an exception leaves the view function: Flask answers 500 *)
Raise(r, exception) == [r EXCEPT !.pc = "reply", !.code = 500, !.raised = exception]

(* match_statements_to_polymarket: {"matches": []} without markets and    *)
(* after any exception, the parsed content otherwise                      *)
match_statements_to_polymarket(markets, llm) ==
    IF markets = <<>> \/ llm.kind # "object"
    THEN LlmOutput("object", TRUE, <<>>)
    ELSE llm

execute_polymarket_trade(market_title, side) ==
    [market_title |-> market_title, side |-> side, tx_hash |-> "0xFAKE_TRANSACTION_HASH"]

(* the for loop of process_transcript from match r.i + 1 up to the next    *)
(* send_imessage; m["..."] of a missing key raises KeyError               *)
TradeLoop(r) ==
    IF ~r.match_result.has_matches \/ r.i >= Len(r.match_result.matches)
    THEN [r EXCEPT !.pc = "detect"]
    ELSE LET m == r.match_result.matches[r.i + 1]
         IN  IF m.market_title = None \/ m.recommended_position = None
             THEN Raise(r, "KeyError")
             ELSE LET traded == [r EXCEPT !.i = @ + 1,
                                          !.created_positions =
                                              Append(@, execute_polymarket_trade(
                                                  m.market_title, m.recommended_position))]
                  IN  IF m.reasoning = None
                      THEN Raise(traded, "KeyError")
                      ELSE [traded EXCEPT !.pc = "send",
                                          !.text = <<"bet", m.market_title,
                                                     m.recommended_position, m.reasoning>>]

(* send_imessage: the text is delivered, or CalledProcessError is printed, *)
(* or the exception of subprocess.run leaves the function                  *)
send_imessage(r, outcome) ==
    CASE outcome = "sent" ->
           [r EXCEPT !.delivered = Append(@, r.text), !.text = <<>>,
                     !.sends = @ \cup {outcome}]
      [] outcome = "CalledProcessError" ->
           [r EXCEPT !.text = <<>>, !.sends = @ \cup {outcome}]
      [] OTHER ->
           Raise([r EXCEPT !.text = <<>>, !.sends = @ \cup {outcome}], outcome)

TranscriptStep(r) ==
    /\ tr' = r
    /\ UNCHANGED <<boot, file, cfgs, apis, order, gate, jobs, h, s, reqs>>

(* POST /process_transcript; payload: the body is a non-empty JSON object *)
TranscriptReceive(payload) ==
    /\ tr.pc = "idle"
    /\ reqs < MaxRequests
    /\ reqs' = reqs + 1
    /\ tr' = IF payload
             THEN [IdleTranscript EXCEPT !.pc = "fetch"]
             ELSE [IdleTranscript EXCEPT !.pc = "reply", !.code = 400]
    /\ UNCHANGED <<boot, file, cfgs, apis, order, gate, jobs, h, s>>

(* fetch_polymarket_markets returns; without markets the matcher returns  *)
(* at once and the loop has nothing to do                                 *)
TranscriptFetch(markets) ==
    /\ tr.pc = "fetch"
    /\ IF markets = <<>>
       THEN TranscriptStep(TradeLoop([tr EXCEPT !.match_result =
                                          match_statements_to_polymarket(markets, NoLlmOutput)]))
       ELSE TranscriptStep([tr EXCEPT !.pc = "match"])

(* the chat completion request of match_statements_to_polymarket ends *)
TranscriptMatch(llm) ==
    /\ tr.pc = "match"
    /\ TranscriptStep(TradeLoop([tr EXCEPT !.llm = llm,
                                     !.match_result =
                                         match_statements_to_polymarket(<<"Q">>, llm)]))

(* the osascript of a bet notification ends *)
TranscriptSend(outcome) ==
    /\ tr.pc = "send"
    /\ LET r == send_imessage(tr, outcome)
       IN  TranscriptStep(IF r.raised # None THEN r ELSE TradeLoop(r))

(* detect_friend_market returns: {"should_create": False} after a failure *)
TranscriptDetect(fm) ==
    /\ tr.pc = "detect"
    /\ IF fm.kind = "object" /\ fm.should_create
       THEN IF fm.market_title = None
            THEN TranscriptStep(Raise(tr, "KeyError"))
            ELSE TranscriptStep([tr EXCEPT !.pc = "send_fm",
                                           !.friend_market = fm.market_title,
                                           !.text = <<"friend", fm.market_title>>])
       ELSE TranscriptStep([tr EXCEPT !.pc = "reply", !.code = 200])

(* the osascript of the friend market notification ends *)
TranscriptSendFriend(outcome) ==
    /\ tr.pc = "send_fm"
    /\ LET r == send_imessage(tr, outcome)
       IN  TranscriptStep(IF r.raised # None THEN r
                          ELSE [r EXCEPT !.pc = "reply", !.code = 200])

TranscriptReply ==
    /\ tr.pc = "reply"
    /\ TranscriptStep(IdleTranscript)

process_transcript ==
    \/ \E payload \in BOOLEAN : TranscriptReceive(payload)
    \/ \E markets \in MarketLists : TranscriptFetch(markets)
    \/ \E llm \in LlmOutputs : TranscriptMatch(llm)
    \/ \E outcome \in SendOutcomes : TranscriptSend(outcome)
    \/ \E fm \in FriendOutputs : TranscriptDetect(fm)
    \/ \E outcome \in SendOutcomes : TranscriptSendFriend(outcome)
    \/ TranscriptReply

SpecTranscript == InitWith({NoFile}) /\ [][process_transcript]_vars

----------------------------------------------------------------------------
(* Properties *)

Replied(t, kind) == h[t].pc = "reply" /\ h[t].kind = kind

(* the path a create body's "endpoint" denotes *)
SlashPath(raw) == IF raw # <<>> /\ Head(raw) = "/" THEN raw ELSE <<"/">> \o raw

(* thread t takes a request of this kind in the step *)
Takes(t, kind) == h[t].pc = "idle" /\ h'[t].pc # "idle" /\ h'[t].kind = kind

C2_SecondCreateRejected ==
    [][ \A t \in Handlers :
          (Takes(t, "create") /\ SlashPath(h'[t].raw) \in DOMAIN apis)
          => /\ h'[t].pc = "reply"
             /\ h'[t].resp.code = 400
             /\ h'[t].resp.error = "Endpoint already exists"
             /\ h'[t].calls = {}
             /\ UNCHANGED <<cfgs, apis, order, jobs, gate, file>> ]_vars

C2_Witness ==
    \E t \in Handlers :
        /\ Replied(t, "create")
        /\ h[t].alone
        /\ h[t].resp.error = "Endpoint already exists"
        /\ h[t].raw # h[t].ep
        /\ cfgs[apis[h[t].ep]].job_id # NoJob

(* C3: a gateway request to a path that is not registered is answered 404 *)
(* in that step, without any outbound call and without any change to the  *)
(* registry, the gate, the jobs or the file.                              *)
C3_UnknownRoute404 ==
    [][ \A t \in Handlers :
          (Takes(t, "gateway") /\ (<<"/">> \o h'[t].raw) \notin DOMAIN apis)
          => /\ h'[t].pc = "reply"
             /\ h'[t].resp.code = 404
             /\ h'[t].calls = {}
             /\ UNCHANGED <<cfgs, apis, order, jobs, gate, file>> ]_vars

C3_Witness ==
    \E t \in Handlers :
        /\ Replied(t, "gateway")
        /\ h[t].resp.code = 404
        /\ DOMAIN apis # {}
        /\ DOMAIN gate # {}

(* C4, as claimed: a gateway request that found its route without token   *)
(* is never forwarded, and when its finalize attempt has returned it is   *)
(* answered 503 with the job id of the route.                             *)
C4_PendingNeverForwarded ==
    [][\A t \in Handlers :
          (h[t].kind = "gateway" /\ h[t].sawPending)
          => /\ "target" \notin h'[t].calls
             /\ (h[t].pc = "gw_ret" /\ h'[t].pc # "gw_ret") =>
                   /\ h'[t].pc = "reply"
                   /\ h'[t].resp.code = 503
                   /\ h'[t].resp.job_id = cfgs[apis[h[t].ep]].job_id]_vars

(* C4, amended: when the finalize attempt of such a request returns False *)
(* the request is answered 503 with the job_id of the route's record      *)
(* (none for a record without job_id) and is not forwarded; when the      *)
(* attempt returns True the request is proxied to the target.  No other   *)
(* step of the request forwards it.                                       *)
C4_Pending503UnlessFinalized ==
    [][\A t \in Handlers :
          (h[t].kind = "gateway" /\ h[t].sawPending)
          => IF h[t].pc = "gw_ret" /\ h'[t].pc # "gw_ret"
             THEN IF h[t].fin
                  THEN \/ "target" \in h'[t].calls
                       \/ h'[t].resp.error = "Unsupported method"
                  ELSE /\ h'[t].pc = "reply"
                       /\ h'[t].resp.code = 503
                       /\ h'[t].resp.job_id = cfgs[apis[h[t].ep]].job_id
                       /\ "target" \notin h'[t].calls
             ELSE "target" \in h'[t].calls => "target" \in h[t].calls]_vars

C4_Witness ==
    \E t \in Handlers :
        /\ Replied(t, "gateway")
        /\ h[t].sawPending
        /\ h[t].resp.code = 503
        /\ h[t].resp.job_id # NoJob
        /\ "status" \in h[t].calls

(* C5: a request is forwarded to the target only if the payment gate held *)
(* a price for its path when the request passed the gate.                 *)
C5_ForwardedOnlyIfGated ==
    \A t \in Handlers : "target" \in h[t].calls => h[t].gateHeld

Quiescent ==
    /\ boot = "running"
    /\ s.pc = "sleep"
    /\ \A t \in Handlers : h[t].pc = "idle"

(* C9: when no operation is in progress, the gate holds for every         *)
(* deployed route the price derived from the stored api_price_usd.        *)
C9_GateFollowsStoredPrice ==
    Quiescent =>
        \A p \in DOMAIN apis :
            Truthy(cfgs[apis[p]].token_address) =>
                /\ p \in DOMAIN gate
                /\ gate[p] = X402Price(cfgs[apis[p]])

(* the sync thread leaves its fetch with a snapshot / without one *)
SyncFetched == s.pc = "fetch" /\ s'.pc # "fetch" /\ s'.price_data # Absent
SyncUnavailable == s.pc = "fetch" /\ s'.pc # "fetch" /\ s'.price_data = Absent

(* C6: the step in which the sync thread gets a snapshot for a route      *)
(* stores the fetched price as token_price_usd and the fetched price      *)
(* times the route's price_multiplier as api_price_usd.                   *)
C6_SyncStoresFetchedPrice ==
    [][ SyncFetched =>
          /\ cfgs'[s.obj].token_price_usd = s'.price_data
          /\ cfgs'[s.obj].api_price_usd = s'.price_data * cfgs[s.obj].price_multiplier
          /\ cfgs'[s.obj].price_data = s'.price_data ]_vars

C6_Witness ==
    /\ s.pc = "gate"
    /\ s.old_api_price > 0
    /\ cfgs[s.obj].api_price_usd # s.old_api_price
    /\ cfgs[s.obj].price_multiplier # default_price_multiplier

(* C7: whenever the sync thread is between two routes, every route it got *)
(* a snapshot for in this tick has been pushed to the gate in this tick,  *)
(* and a tick that ends has dealt with every route of the registry: each  *)
(* was Unavailable, or pushed, or had no token.                           *)
C7_UnavailableDoesNotStopTick ==
    /\ s.pc \in {"next", "sleep", "dead"} => s.fetched = s.pushed
    /\ s.pushed \subseteq DOMAIN gate
    /\ s.pc = "sleep" =>
          /\ s.pos = s.used
          /\ \A i \in 1..s.used : order[i] \in s.unavail \cup s.pushed \cup s.skipped

C7_Witness ==
    /\ s.pc = "sleep"
    /\ \E i, j \in 1..s.used :
          /\ i < j
          /\ order[i] \in s.unavail
          /\ order[j] \in s.pushed

(* C8: the step in which the feed is Unavailable for a route changes no   *)
(* record and no gate registration, and leaves the sync thread at the     *)
(* head of its loop, before the next route.                               *)
C8_UnavailableLeavesPrice ==
    [][ SyncUnavailable =>
          /\ cfgs' = cfgs
          /\ gate' = gate
          /\ apis' = apis
          /\ s'.pc = "next"
          /\ s'.pos = s.pos ]_vars

C8_Witness ==
    /\ s.pc = "next"
    /\ s.ep \in s.unavail
    /\ s.pos < s.used
    /\ s.ep \in DOMAIN gate

(* C10: the sync thread never stops.                                      *)
C10_SyncLoopNeverDies == s.pc # "dead"

(* the sync thread passes over route ep in this step because the route   *)
(* has no token_address                                                   *)
SyncPassesOver(ep) ==
    /\ s' # s
    /\ ep \in s'.skipped
    /\ s.pc = "sleep" \/ ep \notin s.skipped

(* C11: when the sync thread comes to a route without token whose launch  *)
(* job has resolved, the route has its token when the thread moves on.    *)
C11_SyncFinalizesPending ==
    [][ \A ep \in DOMAIN apis :
          ( /\ SyncPassesOver(ep)
            /\ cfgs[apis[ep]].job_id # NoJob
            /\ jobs[cfgs[apis[ep]].job_id] = "resolved" )
          => Truthy(cfgs'[apis[ep]].token_address) ]_vars

(* C12: a route that has a token_address keeps that token_address in     *)
(* every step.                                                            *)
C12_DeployedStaysDeployed ==
    [][ \A ep \in DOMAIN apis :
          Truthy(cfgs[apis[ep]].token_address)
          => /\ ep \in DOMAIN apis'
             /\ cfgs'[apis'[ep]].token_address = cfgs[apis[ep]].token_address ]_vars

(* the current price of a record *)
Prices(c) == <<c.token_price_usd, c.api_price_usd>>

(* C13, as claimed: a step that is not a step of the sync thread leaves   *)
(* token_price_usd and api_price_usd of every record unchanged.           *)
C13_PriceChangedOnlyBySync ==
    [][ s' = s => \A i \in DOMAIN cfgs : Prices(cfgs'[i]) = Prices(cfgs[i]) ]_vars

(* C13, amended: the prices of a record change only in the step of the    *)
(* sync thread that stores a fetched snapshot for it, and in the step of  *)
(* finalize_token_launch that stores the initial price after it found the *)
(* launch job resolved; no other step of create, status or the gateway    *)
(* changes them.                                                          *)
C13_PriceChangedOnlyBySyncOrFinalize ==
    [][ \A i \in DOMAIN cfgs :
          Prices(cfgs'[i]) # Prices(cfgs[i])
          => \/ /\ s.pc = "fetch"
                /\ s.obj = i
                /\ s'.pc = "gate"
                /\ h' = h
             \/ /\ s' = s
                /\ \E t \in Handlers :
                      /\ h[t].pc = "fin_price"
                      /\ h[t].fcfg = i
                      /\ h'[t].pc = "fin_gate"
                      /\ Truthy(cfgs[i].token_address) ]_vars

C13_Witness ==
    /\ s.pc = "sleep"
    /\ s.pushed # {}
    /\ \E t \in Handlers :
          /\ h[t].pc = "fin_gate"
          /\ h[t].kind = "status"
          /\ cfgs[h[t].fcfg].api_price_usd # Absent

(* C14: the step in which the outbound call of a forwarded request ends  *)
(* answers 504 when the call timed out and 502 when it failed otherwise,  *)
(* and changes no record, registration, gate entry, job or file.          *)
C14_UpstreamFailureCodes ==
    [][ \A t \in Handlers :
          (h[t].pc = "gw_wait" /\ h'[t].pc # "gw_wait")
          => /\ h'[t].pc = "reply"
             /\ h'[t].upstream = "timeout" => h'[t].resp.code = 504
             /\ h'[t].upstream = "error" => h'[t].resp.code = 502
             /\ h'[t].upstream \in UpstreamOutcomes
             /\ UNCHANGED <<cfgs, apis, order, gate, jobs, file>> ]_vars

C14_Witness ==
    \E t \in Handlers :
        /\ Replied(t, "gateway")
        /\ h[t].upstream = "timeout"
        /\ h[t].resp.code = 504
        /\ h[t].gateHeld
        /\ Truthy(cfgs[apis[h[t].ep]].token_address)

(* C15: the step in which get_token_price_data returns to                *)
(* finalize_token_launch leaves the caller at its next statement; for a   *)
(* 200 answer without price the snapshot has price 0, the price 0 is      *)
(* stored and the route keeps its token; for a timeout, another status    *)
(* than 200 or an unparsable body there is no snapshot.                   *)
C15_FeedNeverRaises ==
    [][ \A t \in Handlers :
          (h[t].pc = "fin_price" /\ h'[t] # h[t])
          => /\ h'[t].pc = "fin_gate"
             /\ h'[t].feed = FeedNoPrice
                => /\ h'[t].snapshot = 0
                   /\ cfgs'[h[t].fcfg].token_price_usd = 0
                   /\ cfgs'[h[t].fcfg].price_data = 0
                   /\ Truthy(cfgs'[h[t].fcfg].token_address)
             /\ h'[t].feed \in FeedFailures
                => /\ h'[t].snapshot = Absent
                   /\ cfgs'[h[t].fcfg].price_data = Absent
                   /\ Truthy(cfgs'[h[t].fcfg].token_address) ]_vars

C15_Witness ==
    \E t \in Handlers :
        /\ h[t].pc = "fin_gate"
        /\ h[t].feed = FeedNoPrice
        /\ h[t].snapshot = 0
        /\ cfgs[h[t].fcfg].token_price_usd = 0
        /\ Truthy(cfgs[h[t].fcfg].token_address)

(* C16, as claimed: a create whose target_url starts with neither        *)
(* http:// nor https:// is answered 400 "Invalid target URL"; it makes no *)
(* launch call and changes no record, registration, job, gate entry or    *)
(* file.                                                                  *)
C16_InvalidUrlIsInvalidInput ==
    [][ \A t \in Handlers :
          (Takes(t, "create") /\ h'[t].url[1] \notin {"http://", "https://"})
          => /\ h'[t].pc = "reply"
             /\ h'[t].resp.code = 400
             /\ h'[t].resp.error = "Invalid target URL"
             /\ h'[t].calls = {}
             /\ UNCHANGED <<cfgs, apis, order, jobs, gate, file>> ]_vars

(* C16, amended: such a create is answered 400, makes no launch call and  *)
(* changes nothing; the error is "Invalid target URL" when the path is    *)
(* not registered yet, and "Endpoint already exists" when it is.          *)
C16_InvalidUrlRejected ==
    [][ \A t \in Handlers :
          (Takes(t, "create") /\ h'[t].url[1] \notin {"http://", "https://"})
          => /\ h'[t].pc = "reply"
             /\ h'[t].resp.code = 400
             /\ h'[t].resp.error = IF SlashPath(h'[t].raw) \in DOMAIN apis
                                   THEN "Endpoint already exists"
                                   ELSE "Invalid target URL"
             /\ h'[t].calls = {}
             /\ UNCHANGED <<cfgs, apis, order, jobs, gate, file>> ]_vars

C16_Witness ==
    \E t \in Handlers :
        /\ Replied(t, "create")
        /\ h[t].url[1] = "ftp://"
        /\ h[t].resp.error = "Invalid target URL"
        /\ DOMAIN apis # {}

(* C17: every create request that was received gets its response, and    *)
(* a create that registered its route answers 201 with the route deployed *)
(* or pending after at most MaxPolls finalize attempts, whether or not    *)
(* the launch job ever resolves.                                          *)
C17_CreateReturns ==
    /\ \A t \in Handlers :
          (h[t].kind = "create") ~> (h[t].kind = "create" /\ h[t].pc = "reply")
    /\ [](\A t \in Handlers :
            /\ h[t].polls <= MaxPolls
            /\ (Replied(t, "create") /\ h[t].cfg # 0)
               => /\ h[t].resp.code = 201
                  /\ h[t].resp.status \in {"deployed", "pending"})

C17_Witness ==
    \E t \in Handlers :
        /\ Replied(t, "create")
        /\ h[t].resp.status = "pending"
        /\ h[t].polls = MaxPolls
        /\ jobs[cfgs[h[t].cfg].job_id] = "pending"

(* C18: every registered route has method GET or POST, and no gateway    *)
(* request is answered "Unsupported method".                              *)
C18_MethodIsGetOrPost ==
    /\ \A ep \in DOMAIN apis : cfgs[apis[ep]].method \in {"GET", "POST"}
    /\ \A t \in Handlers : h[t].resp.error # "Unsupported method"

(* C19: the outbound request of a forwarded request has the method, the   *)
(* query parameters and the JSON body of the inbound request, and neither *)
(* a host nor an x-payment header.                                        *)
C19_OutboundMirrorsInbound ==
    \A t \in Handlers :
        "target" \in h[t].calls
        => /\ h[t].sent.method = h[t].req.method
           /\ h[t].sent.args = h[t].req.args
           /\ h[t].sent.json = h[t].req.json
           /\ \A k \in h[t].sent.headers : Lower(k) \notin {"host", "x-payment"}

(* C20: the step that handles a list request answers 200 with one entry  *)
(* for every registered route, in the order in which the routes were      *)
(* inserted, each with the route's state, and with total_apis equal to    *)
(* the number of registered routes; it changes no record, registration,   *)
(* gate entry, job or file.                                               *)
C20_ListIsRegistryInOrder ==
    [][ \A t \in Handlers :
          Takes(t, "list")
          => LET listed == h'[t].listed
             IN  /\ h'[t].pc = "reply"
                 /\ h'[t].resp.code = 200
                 /\ h'[t].total_apis = Cardinality(DOMAIN apis)
                 /\ Len(listed) = Cardinality(DOMAIN apis)
                 /\ {listed[i].endpoint : i \in 1..Len(listed)} = DOMAIN apis
                 /\ \A i \in 1..Len(listed) :
                       /\ listed[i].endpoint = order[i]
                       /\ listed[i].status = "deployed"
                             <=> Truthy(cfgs[apis[order[i]]].token_address)
                 /\ UNCHANGED <<cfgs, apis, order, gate, jobs, file>> ]_vars

C20_Witness ==
    \E t \in Handlers :
        /\ Replied(t, "list")
        /\ h[t].total_apis = 3
        /\ h[t].listed[1].endpoint = <<"/", "b">>
        /\ h[t].listed[3].endpoint = <<"/", "a">>
        /\ h[t].listed[3].status = "launching"

(* the LLM failed or its answer is not the structure asked for *)
Malformed(llm) ==
    \/ llm \in LlmFailures
    \/ llm.kind = "object" /\ ~llm.has_matches
    \/ \E k \in 1..Len(llm.matches) :
          None \in {llm.matches[k].market_title, llm.matches[k].recommended_position,
                    llm.matches[k].reasoning}

(* C21: when the LLM failed or its answer is malformed, the transcript    *)
(* request executes no trade, sends no bet message and does not end in an *)
(* exception.                                                             *)
C21_MalformedIsEmptyMatchList ==
    Malformed(tr.llm)
    => /\ tr.created_positions = <<>>
       /\ \A k \in 1..Len(tr.delivered) : tr.delivered[k][1] # "bet"
       /\ tr.text = <<>> \/ tr.text[1] # "bet"
       /\ tr.raised # "KeyError"

(* C22: a transcript request in which a send failed still ends with the   *)
(* 200 response that carries the positions and the friend market.         *)
C22_SendFailureNotPropagated ==
    (tr.pc = "reply" /\ tr.sends \cap SendFailures # {})
    => /\ tr.code = 200
       /\ tr.raised = None

(* C23: every write of the routes file is the file as it is, with the   *)
(* entry of the saved endpoint replaced or appended: no entry of another  *)
(* endpoint is lost, changed or duplicated.                               *)
C23_SaveUpdatesFileInPlace ==
    [][ file' # file
        => \E t \in Handlers :
              /\ h[t].pc = "save_w"
              /\ file' = SaveInto(file, SavedRoute(cfgs[h[t].sobj])) ]_vars

(* C24: no path is launched twice: two records that were registered by  *)
(* create for the same path are the same record, and a registered record  *)
(* stays the record of its path.                                          *)
C24_OneLaunchPerPath ==
    /\ \A i, j \in DOMAIN cfgs :
          (cfgs[i].endpoint = cfgs[j].endpoint /\ cfgs[i].job_id # NoJob
                                               /\ cfgs[j].job_id # NoJob)
          => i = j
    /\ \A t, u \in Handlers :
          (Replied(t, "create") /\ Replied(u, "create") /\ h[t].ep = h[u].ep
           /\ h[t].resp.code = 201 /\ h[u].resp.code = 201)
          => t = u

(* C25: every route of the registry that has a token_address has both     *)
(* prices, and its api_price_usd is its token_price_usd times its         *)
(* price_multiplier.                                                      *)
C25_DeployedHasConsistentPrices ==
    \A ep \in DOMAIN apis :
        LET c == cfgs[apis[ep]]
        IN  Truthy(c.token_address)
            => /\ c.token_price_usd # Absent
               /\ c.api_price_usd # Absent
               /\ c.api_price_usd = c.token_price_usd * c.price_multiplier

(* C26: when neither the sync thread nor a request is in progress, the    *)
(* gate holds, for every route that a request finalized and the sync      *)
(* thread pushed in its last tick, the price of the route's stored        *)
(* api_price_usd.                                                         *)
C26_GateHoldsLastWrittenPrice ==
    Quiescent =>
        \A p \in s.pushed :
            (p \in DOMAIN apis /\ cfgs[apis[p]].job_id # NoJob)
            => gate[p] = X402Price(cfgs[apis[p]])

(* C27: every route of the registry without token_address has a job_id.   *)
C27_PendingHasJobId ==
    \A ep \in DOMAIN apis :
        ~Truthy(cfgs[apis[ep]].token_address) => cfgs[apis[ep]].job_id # NoJob

(* a create that answers pending leaves a routes file whose entry has no *)
(* token_address and no job_id: the file of a later start                 *)
C27_Witness ==
    /\ file = << RouteData(<<"/", "a">>, "", Absent) >>
    /\ \E t \in Handlers : Replied(t, "create") /\ h[t].resp.status = "pending"

(* C28: the step in which the launch request of a create ends without a *)
(* queued job answers 500 "Failed to launch token on Flaunch" and changes *)
(* no record, registration, gate entry or file; the path of the create    *)
(* is not registered afterwards.                                          *)
C28_FailedLaunchLeavesNoTrace ==
    [][ \A t \in Handlers :
          (h[t].pc = "cr_launch" /\ h'[t].pc # "cr_launch" /\ jobs' = jobs)
          => /\ h'[t].pc = "reply"
             /\ h'[t].resp.code = 500
             /\ h'[t].resp.error = "Failed to launch token on Flaunch"
             /\ UNCHANGED <<cfgs, apis, order, gate, file>>
             /\ ~AlreadyExists(h[t].ep)' ]_vars

C28_Witness ==
    \E t \in Handlers :
        /\ Replied(t, "create")
        /\ h[t].resp.code = 500
        /\ "launch" \in h[t].calls
        /\ h[t].ep \notin DOMAIN apis
        /\ DOMAIN apis # {}
        /\ reqs = MaxRequests

(* C29: every price registered at the gate is greater than zero, and it  *)
(* is registered for a route that has a token_address.                    *)
C29_GatePricePositive ==
    \A p \in DOMAIN gate :
        /\ gate[p] > 0
        /\ p \in DOMAIN apis
        /\ Truthy(cfgs[apis[p]].token_address)

(* C30: every key of the registry begins with "/" and is the endpoint of *)
(* its record, and every create, status and gateway request looks up the  *)
(* path it was given with the leading "/" added when missing.             *)
C30_KeysAreSlashPaths ==
    /\ \A ep \in DOMAIN apis :
          /\ Len(ep) > 0
          /\ ep[1] = "/"
          /\ cfgs[apis[ep]].endpoint = ep
    /\ \A t \in Handlers :
          h[t].kind \in {"create", "status", "gateway"}
          => /\ h[t].ep[1] = "/"
             /\ h[t].raw # <<>> => h[t].ep = SlashPath(h[t].raw)

C30_Witness ==
    /\ file[2].endpoint = <<"c">>
    /\ <<"/", "c">> \in DOMAIN apis
    /\ \E t \in Handlers :
          /\ Replied(t, "create")
          /\ h[t].raw = <<"a">>
          /\ h[t].resp.error = "Endpoint already exists"
          /\ cfgs[apis[<<"/", "a">>]].job_id # NoJob

====
